---- MODULE Spec2Model ----
(***************************************************************************)
(* pybullet_ros: the simulation loop controller of pybullet_ros.py.        *)
(*                                                                         *)
(* Two threads of control are modelled: "main" runs __init__ (startup) and *)
(* then start_pybullet_ros_wrapper (the tick loop); "reset" is the rospy   *)
(* service thread running handle_reset_simulation.  The pause and unpause  *)
(* handlers are single assignments and are modelled as atomic actions.     *)
(* The physics backend is a world of body ids, numbered in load order.     *)
(* Its calls return.  Variables whose names start with tick,               *)
(* and startupLog, intent, preReset, touched, rLoaded, are history         *)
(* variables: they record what the code did and never guard an action.     *)
(***************************************************************************)
EXTENDS Integers, Sequences, FiniteSets, TLC

\* ---------------------------------------------------------------- bounds
MaxPlugins == 2
NumHandles == 4
MaxJoints == 3

\* ------------------------------------------------------- program constants
JOINT_REVOLUTE == 0

VARIABLES
    pc,                    \* position of each thread of control
    pause_simulation,      \* self.pause_simulation
    robot,                 \* self.robot
    joint_index_name_dic,  \* self.joint_index_name_dic
    plugins,               \* self.plugins
    shutdown,              \* rospy.is_shutdown()
    servicesUp,            \* the three rospy.Service objects exist
    connected,             \* the backend connection is open
    disconnects,           \* number of pb.disconnect() calls made
    world,                 \* backend: ids of the bodies in the world
    robots,                \* backend: ids of the robot bodies in the world
    urdfSet,               \* configuration: ~robot_urdf_path is set
    pluginCfg,             \* configuration: ~plugins, in enumeration order
    joints,                \* backend: joint list of the robot description
    startupLog,            \* operations startup has completed, in order
    tickFlag,              \* the pause flag as read by the current iteration
    tickLog,               \* what the current iteration has done, in order
    tickIntent,            \* the requested pause state when the flag was read
    tickTrans,             \* the iteration called the backend during a reset
    tickStale,             \* the iteration queried a handle of no loaded robot
    intent,                \* last request handled: pause, unpause or neither
    preReset,              \* the pause flag when the running reset began
    touched,               \* pause/unpause handled while the reset ran
    rLoaded                \* handle returned by the running reset's robot load

vars == <<pc, pause_simulation, robot, joint_index_name_dic, plugins, shutdown,
          servicesUp, connected, disconnects, world, robots, urdfSet, pluginCfg,
          joints, startupLog, tickFlag, tickLog, tickIntent, tickTrans,
          tickStale, intent, preReset, touched, rLoaded>>

config == <<urdfSet, pluginCfg, joints>>
tickVars == <<tickFlag, tickLog, tickIntent, tickTrans, tickStale>>
resetVars == <<preReset, touched, rLoaded>>
backend == <<connected, disconnects, world, robots>>

Threads == {"main", "reset"}
Handles == 0 .. (NumHandles - 1)
\* the value of self.robot before any load returned: no handle of the backend
NoHandle == NumHandles

\* ------------------------------------------------------------ joint table
\* Joint names as the backend reports them: raw bytes.
NameJ1 == <<106, 49>>
NameJ2 == <<106, 50>>
NameE == <<195, 169>>
NameBad == <<195>>
JointNames == {NameJ1, NameJ2, NameE, NameBad}
\* Joint type codes of the backend: revolute, prismatic, fixed.
JointTypes == {JOINT_REVOLUTE, 1, 4}
JointInfo == [type : JointTypes, name : JointNames]

RECURSIVE ValidUtf8(_, _)
ValidUtf8(b, i) ==
    IF i > Len(b) THEN TRUE
    ELSE IF b[i] < 128 THEN ValidUtf8(b, i + 1)
    ELSE IF b[i] \in 194..223 /\ i + 1 <= Len(b) /\ b[i + 1] \in 128..191
         THEN ValidUtf8(b, i + 2)
    ELSE FALSE

\* bytes.decode('utf-8') on one- and two-byte sequences: the code points.
RECURSIVE DecodeFrom(_, _)
DecodeFrom(b, i) ==
    IF i > Len(b) THEN <<>>
    ELSE IF b[i] < 128 THEN <<b[i]>> \o DecodeFrom(b, i + 1)
    ELSE <<(b[i] - 192) * 64 + (b[i + 1] - 128)>> \o DecodeFrom(b, i + 2)

Decode(b) == DecodeFrom(b, 1)

EmptyDict == [i \in {} |-> <<>>]

\* a plausible slip: the test keeps every joint that is not fixed
M_IsRevolute(info) == info.type # 4

\* info[2] == 0
IsRevolute(info) == info.type = JOINT_REVOLUTE

\* The loop of get_all_revolute_joint_names from joint_index on, given the
\* dictionary built so far.  Python indexes joints from 0.
RECURSIVE JointLoop(_, _, _)
JointLoop(js, joint_index, dic) ==
    IF joint_index >= Len(js) THEN dic
    ELSE LET info == js[joint_index + 1]
         IN  IF IsRevolute(info)
             THEN JointLoop(js, joint_index + 1,
                            dic @@ (joint_index :> Decode(info.name)))
             ELSE JointLoop(js, joint_index + 1, dic)

\* decode raises UnicodeDecodeError on the first revolute joint whose name is
\* not UTF-8; names of other joints are never decoded.
DecodeRaises(js) ==
    \E k \in 1..Len(js) : IsRevolute(js[k]) /\ ~ValidUtf8(js[k].name, 1)

get_all_revolute_joint_names(js) == JointLoop(js, 0, EmptyDict)

\* --------------------------------------------------------------- helpers
\* The joint list the backend reports for the configured robot in the
\* controller's runs: two revolute joints around a fixed one.
RobotJoints ==
    << [type |-> JOINT_REVOLUTE, name |-> NameJ1],
       [type |-> 4, name |-> NameJ2],
       [type |-> JOINT_REVOLUTE, name |-> NameE] >>

\* ~plugins: a dictionary, so no key twice; its enumeration order is the
\* configuration order.
PluginIds == 1 .. MaxPlugins
PluginConfigs ==
    {q \in UNION {[1..n -> PluginIds] : n \in 0..MaxPlugins} :
        \A i, j \in DOMAIN q : i # j => q[i] # q[j]}

Ev(e, i) == [ev |-> e, id |-> i]
Count(log, e) == Cardinality({k \in DOMAIN log : log[k].ev = e})

\* the process is alive: main neither returned nor died of an exception
Alive == pc["main"] \notin {"done", "aborted"}
\* rospy accepts a service request
CanServe == Alive /\ servicesUp /\ ~shutdown
\* the reset handler has cleared the world and not yet reloaded the robot
Transitional ==
    pc["reset"] \in {"i_path", "i_gravity", "i_plane", "i_realtime", "i_load"}

\* loadURDF's return value: the backend numbers the bodies of a world from 0
\* in load order, and resetSimulation starts the numbering again.
NextBodyId(w) == CHOOSE h \in Handles \ w : \A g \in Handles \ w : h <= g

Goto(c, to) == pc' = [pc EXCEPT ![c] = to]
Log(c, op) ==
    startupLog' = IF c = "main" THEN Append(startupLog, op) ELSE startupLog

\* ------------------------------------------------------------------ Init
Init ==
    /\ pc = [c \in Threads |-> IF c = "main" THEN "connect" ELSE "idle"]
    /\ pause_simulation \in BOOLEAN
    /\ robot = NoHandle
    /\ joint_index_name_dic = EmptyDict
    /\ plugins = <<>>
    /\ shutdown = FALSE
    /\ servicesUp = FALSE
    /\ connected = FALSE
    /\ disconnects = 0
    /\ world = {}
    /\ robots = {}
    /\ urdfSet \in BOOLEAN
    /\ pluginCfg \in PluginConfigs
    /\ joints = RobotJoints
    /\ startupLog = <<>>
    /\ tickFlag = FALSE
    /\ tickLog = <<>>
    /\ tickIntent = "none"
    /\ tickTrans = FALSE
    /\ tickStale = FALSE
    /\ intent = "none"
    /\ preReset = FALSE
    /\ touched = FALSE
    /\ rLoaded = NoHandle

\* --------------------------------------------------------------- startup
\* __init__, line 25: start_gui connects in GUI or DIRECT mode.
StartGui ==
    /\ pc["main"] = "connect"
    /\ connected' = TRUE
    /\ Goto("main", "services")
    /\ Log("main", "connect")
    /\ UNCHANGED <<pause_simulation, robot, joint_index_name_dic, plugins,
                   shutdown, servicesUp, disconnects, world, robots, config,
                   tickVars, intent, resetVars>>

\* __init__, lines 27-30: the three services are offered from here on.
RegisterServices ==
    /\ pc["main"] = "services"
    /\ servicesUp' = TRUE
    /\ Goto("main", "searchpath")
    /\ Log("main", "services")
    /\ UNCHANGED <<pause_simulation, robot, joint_index_name_dic, plugins,
                   shutdown, backend, config, tickVars, intent, resetVars>>

\* __init__, line 32.
SetSearchPath ==
    /\ pc["main"] = "searchpath"
    /\ Goto("main", "i_path")
    /\ Log("main", "searchpath")
    /\ UNCHANGED <<pause_simulation, robot, joint_index_name_dic, plugins,
                   shutdown, servicesUp, backend, config, tickVars, intent,
                   resetVars>>

\* ------------------------------------------------- init_pybullet_robot(c)
\* a plausible slip: the robot is loaded right after the path is read
M_InitGetPath(c) ==
    /\ Alive
    /\ pc[c] = "i_path"
    /\ shutdown' = (shutdown \/ ~urdfSet)
    /\ Goto(c, "i_load")
    /\ UNCHANGED <<pause_simulation, robot, joint_index_name_dic, plugins,
                   servicesUp, backend, config, startupLog, tickVars, intent,
                   resetVars>>

\* lines 88-104: read the path; a missing path signals shutdown and the
\* function goes on.
InitGetPath(c) ==
    /\ Alive
    /\ pc[c] = "i_path"
    /\ shutdown' = (shutdown \/ ~urdfSet)
    /\ Goto(c, "i_gravity")
    /\ UNCHANGED <<pause_simulation, robot, joint_index_name_dic, plugins,
                   servicesUp, backend, config, startupLog, tickVars, intent,
                   resetVars>>

\* lines 106-107.
InitSetGravity(c) ==
    /\ Alive
    /\ pc[c] = "i_gravity"
    /\ Goto(c, "i_plane")
    /\ Log(c, "setGravity")
    /\ UNCHANGED <<pause_simulation, robot, joint_index_name_dic, plugins,
                   shutdown, servicesUp, backend, config, tickVars, intent,
                   resetVars>>

\* line 109: the ground plane is one more body of the world.
InitLoadPlane(c) ==
    /\ Alive
    /\ pc[c] = "i_plane"
    /\ world' = world \cup {NextBodyId(world)}
    /\ Goto(c, "i_realtime")
    /\ Log(c, "loadPlane")
    /\ UNCHANGED <<pause_simulation, robot, joint_index_name_dic, plugins,
                   shutdown, servicesUp, connected, disconnects, robots, config,
                   tickVars, intent, resetVars>>

\* line 111.
InitSetRealTime(c) ==
    /\ Alive
    /\ pc[c] = "i_realtime"
    /\ Goto(c, "i_load")
    /\ Log(c, "setRealTime")
    /\ UNCHANGED <<pause_simulation, robot, joint_index_name_dic, plugins,
                   shutdown, servicesUp, backend, config, tickVars, intent,
                   resetVars>>

\* lines 113-115 and the caller's use of the result: __init__ stores it in
\* self.robot (line 34), handle_reset_simulation drops it (line 125).
InitLoadRobotReturns(c) ==
    /\ Alive
    /\ pc[c] = "i_load"
    /\ urdfSet
    /\ LET id == NextBodyId(world)
       IN  /\ world' = world \cup {id}
           /\ robots' = robots \cup {id}
           /\ IF c = "main"
              THEN robot' = id /\ rLoaded' = rLoaded
              ELSE robot' = robot /\ rLoaded' = id
    /\ Goto(c, IF c = "main" THEN "joints" ELSE "r_resume")
    /\ Log(c, "loadRobot")
    /\ UNCHANGED <<pause_simulation, joint_index_name_dic, plugins, shutdown,
                   servicesUp, connected, disconnects, config, tickVars, intent,
                   preReset, touched>>

\* lines 113-115 with urdf_path None: None is no file name and the call
\* raises; the exception ends __init__ (and the process), or the service
\* call, whose thread rospy keeps for the next request.
InitLoadRobotRaises(c) ==
    /\ Alive
    /\ pc[c] = "i_load"
    /\ ~urdfSet
    /\ Goto(c, IF c = "main" THEN "aborted" ELSE "idle")
    /\ preReset' = (IF c = "main" THEN preReset ELSE FALSE)
    /\ touched' = (IF c = "main" THEN touched ELSE FALSE)
    /\ UNCHANGED <<pause_simulation, robot, joint_index_name_dic, plugins,
                   shutdown, servicesUp, backend, config, startupLog, tickVars,
                   intent, rLoaded>>

\* __init__, line 36.
BuildJointTable ==
    /\ pc["main"] = "joints"
    /\ IF DecodeRaises(joints)
       THEN /\ Goto("main", "aborted")
            /\ UNCHANGED <<joint_index_name_dic, startupLog>>
       ELSE /\ joint_index_name_dic' = get_all_revolute_joint_names(joints)
            /\ Goto("main", "plugins")
            /\ Log("main", "joints")
    /\ UNCHANGED <<pause_simulation, robot, plugins, shutdown, servicesUp,
                   backend, config, tickVars, intent, resetVars>>

\* __init__, lines 44-49: one pass of the loop over the plugin dictionary.
LoadPlugin ==
    /\ pc["main"] = "plugins"
    /\ Len(plugins) < Len(pluginCfg)
    /\ plugins' = Append(plugins, pluginCfg[Len(plugins) + 1])
    /\ Log("main", "plugin")
    /\ UNCHANGED <<pc, pause_simulation, robot, joint_index_name_dic, shutdown,
                   servicesUp, backend, config, tickVars, intent, resetVars>>

\* __init__ returns (line 50) and main calls start_pybullet_ros_wrapper.
StartupDone ==
    /\ pc["main"] = "plugins"
    /\ Len(plugins) = Len(pluginCfg)
    /\ Goto("main", "check")
    /\ UNCHANGED <<pause_simulation, robot, joint_index_name_dic, plugins,
                   shutdown, servicesUp, backend, config, startupLog, tickVars,
                   intent, resetVars>>

\* ------------------------------------------- start_pybullet_ros_wrapper
\* a plausible slip: the loop condition never sees the shutdown
M_LoopCheck ==
    /\ pc["main"] = "check"
    /\ Goto("main", "readflag")
    /\ tickFlag' = FALSE
    /\ tickLog' = <<>>
    /\ tickIntent' = "none"
    /\ tickTrans' = FALSE
    /\ tickStale' = FALSE
    /\ UNCHANGED <<pause_simulation, robot, joint_index_name_dic, plugins,
                   shutdown, servicesUp, backend, config, startupLog, intent,
                   resetVars>>

\* line 167: while not rospy.is_shutdown().  A new iteration starts with an
\* empty record of what it did.
LoopCheck ==
    /\ pc["main"] = "check"
    /\ Goto("main", IF shutdown THEN "disconnect" ELSE "readflag")
    /\ tickFlag' = FALSE
    /\ tickLog' = <<>>
    /\ tickIntent' = "none"
    /\ tickTrans' = FALSE
    /\ tickStale' = FALSE
    /\ UNCHANGED <<pause_simulation, robot, joint_index_name_dic, plugins,
                   shutdown, servicesUp, backend, config, startupLog, intent,
                   resetVars>>

\* a plausible slip: the test of the flag is inverted
M_ReadFlag ==
    /\ pc["main"] = "readflag"
    /\ tickFlag' = pause_simulation
    /\ tickIntent' = intent
    /\ Goto("main", IF pause_simulation THEN "publish" ELSE "sleep")
    /\ UNCHANGED <<pause_simulation, robot, joint_index_name_dic, plugins,
                   shutdown, servicesUp, backend, config, startupLog, tickLog,
                   tickTrans, tickStale, intent, resetVars>>

\* line 168: if not self.pause_simulation.
ReadFlag ==
    /\ pc["main"] = "readflag"
    /\ tickFlag' = pause_simulation
    /\ tickIntent' = intent
    /\ Goto("main", IF pause_simulation THEN "sleep" ELSE "publish")
    /\ UNCHANGED <<pause_simulation, robot, joint_index_name_dic, plugins,
                   shutdown, servicesUp, backend, config, startupLog, tickLog,
                   tickTrans, tickStale, intent, resetVars>>

\* line 170, publish_joint_states (lines 142-158): one getJointState per
\* entry of the table with self.robot, then one message.
PublishJointStates ==
    /\ pc["main"] = "publish"
    /\ tickLog' = Append(tickLog, Ev("pub", 0))
    /\ tickTrans' = (tickTrans \/ (Transitional /\ joint_index_name_dic # EmptyDict))
    /\ tickStale' = (tickStale \/ (/\ pc["reset"] = "idle"
                                   /\ joint_index_name_dic # EmptyDict
                                   /\ robot \notin robots))
    /\ Goto("main", IF plugins = <<>> THEN "step" ELSE "exec")
    /\ UNCHANGED <<pause_simulation, robot, joint_index_name_dic, plugins,
                   shutdown, servicesUp, backend, config, startupLog, tickFlag,
                   tickIntent, intent, resetVars>>

\* a plausible slip: the loop over the plugins runs from the last to the first
M_NextPlugin(done) == plugins[Len(plugins) - done]

\* lines 172-173: the plugin the loop reaches after `done` passes
NextPlugin(done) == plugins[done + 1]

\* lines 172-173: one pass of the loop, task.execute().
ExecutePlugin ==
    /\ pc["main"] = "exec"
    /\ LET done == Count(tickLog, "exec")
       IN  /\ tickLog' = Append(tickLog, Ev("exec", NextPlugin(done)))
           /\ Goto("main", IF done + 1 = Len(plugins) THEN "step" ELSE "exec")
    /\ tickTrans' = (tickTrans \/ Transitional)
    /\ UNCHANGED <<pause_simulation, robot, joint_index_name_dic, plugins,
                   shutdown, servicesUp, backend, config, startupLog, tickFlag,
                   tickIntent, tickStale, intent, resetVars>>

\* line 176.
StepSimulation ==
    /\ pc["main"] = "step"
    /\ tickLog' = Append(tickLog, Ev("step", 0))
    /\ tickTrans' = (tickTrans \/ Transitional)
    /\ Goto("main", "sleep")
    /\ UNCHANGED <<pause_simulation, robot, joint_index_name_dic, plugins,
                   shutdown, servicesUp, backend, config, startupLog, tickFlag,
                   tickIntent, tickStale, intent, resetVars>>

\* line 177: self.loop_rate.sleep() returns at the next tick boundary.
Sleep ==
    /\ pc["main"] = "sleep"
    /\ Goto("main", "check")
    /\ UNCHANGED <<pause_simulation, robot, joint_index_name_dic, plugins,
                   shutdown, servicesUp, backend, config, startupLog, tickVars,
                   intent, resetVars>>

\* line 179, and main returns.
Disconnect ==
    /\ pc["main"] = "disconnect"
    /\ connected' = FALSE
    /\ disconnects' = disconnects + 1
    /\ Goto("main", "done")
    /\ UNCHANGED <<pause_simulation, robot, joint_index_name_dic, plugins,
                   shutdown, servicesUp, world, robots, config, startupLog,
                   tickVars, intent, resetVars>>

\* ------------------------------------------------------ service handlers
\* handle_reset_simulation, lines 119-121.
ResetPause ==
    /\ CanServe
    /\ pc["reset"] = "idle"
    /\ preReset' = pause_simulation
    /\ touched' = FALSE
    /\ rLoaded' = NoHandle
    /\ pause_simulation' = TRUE
    /\ intent' = "none"
    /\ Goto("reset", "r_reset")
    /\ UNCHANGED <<robot, joint_index_name_dic, plugins, shutdown, servicesUp,
                   backend, config, startupLog, tickVars>>

\* line 123: every body leaves the world.
ResetSimulation ==
    /\ Alive
    /\ pc["reset"] = "r_reset"
    /\ world' = {}
    /\ robots' = {}
    /\ Goto("reset", "i_path")
    /\ UNCHANGED <<pause_simulation, robot, joint_index_name_dic, plugins,
                   shutdown, servicesUp, connected, disconnects, config,
                   startupLog, tickVars, intent, resetVars>>

\* a plausible slip: the handler puts back the flag it found
M_ResetResume ==
    /\ Alive
    /\ pc["reset"] = "r_resume"
    /\ pause_simulation' = preReset
    /\ intent' = "none"
    /\ Goto("reset", "r_return")
    /\ UNCHANGED <<robot, joint_index_name_dic, plugins, shutdown, servicesUp,
                   backend, config, startupLog, tickVars, resetVars>>

\* line 127.
ResetResume ==
    /\ Alive
    /\ pc["reset"] = "r_resume"
    /\ pause_simulation' = FALSE
    /\ intent' = "none"
    /\ Goto("reset", "r_return")
    /\ UNCHANGED <<robot, joint_index_name_dic, plugins, shutdown, servicesUp,
                   backend, config, startupLog, tickVars, resetVars>>

\* line 128: the handler returns its empty answer.
ResetReturn ==
    /\ Alive
    /\ pc["reset"] = "r_return"
    /\ Goto("reset", "idle")
    /\ preReset' = FALSE
    /\ touched' = FALSE
    /\ rLoaded' = NoHandle
    /\ UNCHANGED <<pause_simulation, robot, joint_index_name_dic, plugins,
                   shutdown, servicesUp, backend, config, startupLog, tickVars,
                   intent>>

\* handle_pause_physics, lines 130-134.
HandlePausePhysics ==
    /\ CanServe
    /\ pause_simulation' = FALSE
    /\ intent' = "paused"
    /\ touched' = (touched \/ pc["reset"] # "idle")
    /\ UNCHANGED <<pc, robot, joint_index_name_dic, plugins, shutdown,
                   servicesUp, backend, config, startupLog, tickVars, preReset,
                   rLoaded>>

\* handle_unpause_physics, lines 136-140.
HandleUnpausePhysics ==
    /\ CanServe
    /\ pause_simulation' = TRUE
    /\ intent' = "running"
    /\ touched' = (touched \/ pc["reset"] # "idle")
    /\ UNCHANGED <<pc, robot, joint_index_name_dic, plugins, shutdown,
                   servicesUp, backend, config, startupLog, tickVars, preReset,
                   rLoaded>>

\* the node is killed (SIGINT, rosnode kill): rospy's shutdown flag rises
SignalShutdown ==
    /\ Alive
    /\ ~shutdown
    /\ shutdown' = TRUE
    /\ UNCHANGED <<pc, pause_simulation, robot, joint_index_name_dic, plugins,
                   servicesUp, backend, config, startupLog, tickVars, intent,
                   resetVars>>

\* ------------------------------------------------------- specifications
MainNext ==
    \/ StartGui
    \/ RegisterServices
    \/ SetSearchPath
    \/ InitGetPath("main")
    \/ InitSetGravity("main")
    \/ InitLoadPlane("main")
    \/ InitSetRealTime("main")
    \/ InitLoadRobotReturns("main")
    \/ InitLoadRobotRaises("main")
    \/ BuildJointTable
    \/ LoadPlugin
    \/ StartupDone
    \/ LoopCheck
    \/ ReadFlag
    \/ PublishJointStates
    \/ ExecutePlugin
    \/ StepSimulation
    \/ Sleep
    \/ Disconnect

ResetNext ==
    \/ ResetPause
    \/ ResetSimulation
    \/ InitGetPath("reset")
    \/ InitSetGravity("reset")
    \/ InitLoadPlane("reset")
    \/ InitSetRealTime("reset")
    \/ InitLoadRobotReturns("reset")
    \/ InitLoadRobotRaises("reset")
    \/ ResetResume
    \/ ResetReturn

Next ==
    \/ MainNext
    \/ ResetNext
    \/ HandlePausePhysics
    \/ HandleUnpausePhysics
    \/ SignalShutdown

Spec == Init /\ [][Next]_vars

\* The tick loop under the scheduling the claim about shutdown assumes: the
\* main thread is never starved, loop_rate.sleep() and the plugins return.
LiveSpec == Init /\ [][Next]_vars /\ WF_vars(MainNext)

\* get_all_revolute_joint_names on every joint list within the bounds: the
\* state as line 36 finds it, the robot loaded, for any list the backend
\* may report.
JointLists == UNION {[1..n -> JointInfo] : n \in 0..MaxJoints}

JointInit ==
    /\ pc = [c \in Threads |-> IF c = "main" THEN "joints" ELSE "idle"]
    /\ pause_simulation = FALSE
    /\ robot = 1
    /\ joint_index_name_dic = EmptyDict
    /\ plugins = <<>>
    /\ shutdown = FALSE
    /\ servicesUp = TRUE
    /\ connected = TRUE
    /\ disconnects = 0
    /\ world = {0, 1}
    /\ robots = {1}
    /\ urdfSet = TRUE
    /\ pluginCfg = <<>>
    /\ joints \in JointLists
    /\ startupLog = <<"connect", "services", "searchpath", "setGravity",
                      "loadPlane", "setRealTime", "loadRobot">>
    /\ tickFlag = FALSE
    /\ tickLog = <<>>
    /\ tickIntent = "none"
    /\ tickTrans = FALSE
    /\ tickStale = FALSE
    /\ intent = "none"
    /\ preReset = FALSE
    /\ touched = FALSE
    /\ rLoaded = NoHandle

JointSpec == JointInit /\ [][BuildJointTable]_vars

\* ================================================================ claims
IsPrefix(a, b) == Len(a) <= Len(b) /\ \A k \in DOMAIN a : a[k] = b[k]
FlagRead == pc["main"] \in {"publish", "exec", "step", "sleep"}
IterationOver == pc["main"] = "sleep"
PluginEvents == [k \in 1..Len(pluginCfg) |-> Ev("exec", pluginCfg[k])]

\* C1: an iteration of the tick loop that read the pause flag true publishes
\* no joint-state message and makes no backend step; one that read it false
\* publishes exactly one message and makes exactly one step.
C1_TickFollowsFlag ==
    /\ (FlagRead /\ tickFlag) =>
          (Count(tickLog, "pub") = 0 /\ Count(tickLog, "step") = 0)
    /\ (FlagRead /\ ~tickFlag) =>
          (Count(tickLog, "pub") <= 1 /\ Count(tickLog, "step") <= 1)
    /\ (IterationOver /\ ~tickFlag) =>
          (Count(tickLog, "pub") = 1 /\ Count(tickLog, "step") = 1)

C1_Witness ==
    /\ IterationOver
    /\ ~tickFlag
    /\ Count(tickLog, "pub") = 1
    /\ Count(tickLog, "step") = 1

\* C2: a tick that reads the flag after a pause request was handled, with no
\* unpause request and no reset since, publishes nothing and makes no step;
\* a tick that reads it after an unpause request publishes and steps.
C2_PauseStopsTicks ==
    /\ tickIntent = "paused" =>
          (Count(tickLog, "pub") = 0 /\ Count(tickLog, "step") = 0)
    /\ (tickIntent = "running" /\ IterationOver) =>
          (Count(tickLog, "pub") = 1 /\ Count(tickLog, "step") = 1)

C4_ResetRestoresFlag ==
    (pc["reset"] = "r_return" /\ ~touched) => pause_simulation = preReset

\* C4 as amended: when the reset handler returns, no pause or unpause request
\* handled meanwhile, the pause flag is false, whatever it was before.
C4_ResetLeavesRunning ==
    (pc["reset"] = "r_return" /\ ~touched) => pause_simulation = FALSE

C4_Witness ==
    /\ pc["reset"] = "r_return"
    /\ ~touched
    /\ preReset = TRUE
    /\ pause_simulation = FALSE

\* C5: once startup has found the robot description path missing it makes no
\* further backend call, builds no joint table, constructs no plugin, and no
\* tick body runs.
MissingDetected ==
    /\ ~urdfSet
    /\ pc["main"] \notin {"connect", "services", "searchpath", "i_path"}

C5_MissingPathTerminates ==
    MissingDetected =>
        /\ \A k \in DOMAIN startupLog :
              startupLog[k] \in {"connect", "services", "searchpath"}
        /\ joint_index_name_dic = EmptyDict
        /\ plugins = <<>>
        /\ pc["main"] \notin {"publish", "exec", "step"}

\* C6 as claimed: startup loads the robot before it sets gravity, loads the
\* ground plane and disables real-time stepping, and no service exists
\* before the robot is loaded.
ClaimedOrder ==
    <<"connect", "searchpath", "loadRobot", "setGravity", "loadPlane",
      "setRealTime", "joints">> \o [k \in 1..Len(pluginCfg) |-> "plugin"]

WithoutServices(log) == SelectSeq(log, LAMBDA op : op # "services")

C6_RobotLoadedFirst ==
    /\ IsPrefix(WithoutServices(startupLog), ClaimedOrder)
    /\ servicesUp => robot # NoHandle

\* C6 as amended: startup connects, registers the three services, sets the
\* search path, sets gravity, loads the ground plane, disables real-time
\* stepping, loads the robot, builds the joint table and constructs the
\* plugins, in this order; the services exist before the robot is loaded.
CodeOrder ==
    <<"connect", "services", "searchpath", "setGravity", "loadPlane",
      "setRealTime", "loadRobot", "joints">>
        \o [k \in 1..Len(pluginCfg) |-> "plugin"]

C6_StartupOrder ==
    /\ IsPrefix(startupLog, CodeOrder)
    /\ robot # NoHandle => servicesUp
    /\ plugins = SubSeq(pluginCfg, 1, Len(plugins))

C6_Witness ==
    /\ pc["main"] = "check"
    /\ startupLog = CodeOrder
    /\ Len(pluginCfg) >= 1
    /\ plugins = pluginCfg

\* C7: when the reset handler returns, self.robot is the handle the backend
\* returned for the robot load of that reset, and no later joint-state query
\* uses a handle of a robot that is not in the world.
C7_ResetKeepsCurrentHandle ==
    /\ (pc["reset"] = "r_return" /\ robot # NoHandle) => robot = rLoaded
    /\ ~tickStale

\* C8: the joint table has as keys exactly the indices of the joints whose
\* type code is 0, each mapped to the text of that joint's name.
TextOf(b) ==
    CASE b = NameJ1 -> <<106, 49>>
      [] b = NameJ2 -> <<106, 50>>
      [] b = NameE -> <<233>>

C8_TableIsRevoluteJoints ==
    pc["main"] = "plugins" =>
        /\ DOMAIN joint_index_name_dic =
              {i \in 0 .. (Len(joints) - 1) : joints[i + 1].type = 0}
        /\ \A i \in DOMAIN joint_index_name_dic :
              joint_index_name_dic[i] = TextOf(joints[i + 1].name)

C8_Witness ==
    /\ pc["main"] = "plugins"
    /\ Len(joints) >= 3
    /\ DOMAIN joint_index_name_dic = {0, 2}
    /\ joints[2].type = 1
    /\ joint_index_name_dic[2] = <<233>>

\* C9: the tick loop makes no backend call between the reset handler's
\* resetSimulation and the end of its robot reload.
C9_NoTickCallDuringReset == ~tickTrans

\* C10: once shutdown is signalled the tick loop exits and disconnects, once;
\* after that it calls the backend and publishes no more.
InLoop ==
    pc["main"] \in {"check", "readflag", "publish", "exec", "step", "sleep",
                    "disconnect"}

C10_ShutdownDisconnects ==
    /\ [](shutdown /\ InLoop => <>(pc["main"] = "done"))
    /\ [](pc["main"] = "done" => (disconnects = 1 /\ ~connected))
    /\ [](disconnects <= 1)
    /\ [][pc["main"] = "done" =>
            (pc'["main"] = "done" /\ tickLog' = tickLog /\ UNCHANGED backend)]_vars

C10_Witness ==
    /\ pc["main"] = "done"
    /\ shutdown
    /\ disconnects = 1
    /\ ~connected
    /\ robot \in robots

====
